---------------------------- MODULE Spec2Model ----------------------------
(***************************************************************************)
(* A model of sunless_wiki.py: the cross-reference derivation done by      *)
(* InitGlobals (area reachability over the event graph, then the shop /    *)
(* area index) and the name-or-id lookup FuzzyLookupItem.                  *)
(*                                                                         *)
(* Conventions.  A field that may be None in the JSON is a sequence of     *)
(* length at most one: <<>> is None (falsy in Python), <<v>> is the value. *)
(* A record of the tables is identified by its position in its table; the  *)
(* derived fields the code stores inside the dicts (event[AREA],           *)
(* area[SUBSURFACE]) are functions over those positions or ids.            *)
(***************************************************************************)
EXTENDS Integers, Sequences, FiniteSets, TLC

VARIABLES
  EVENTS,        \* the Events table (input)
  TILES_DATA,    \* the Tiles table (input)
  pc,            \* position of InitGlobals / FuzzyLookupItem
  AREAS_MAP,     \* area id -> position in AREAS
  EVENTS_MAP,    \* event id -> position in EVENTS
  AREA,          \* event position -> event[AREA], a list of area ids
  SUBSURFACE,    \* area id -> area[SUBSURFACE]
  SHOP_AREAS,    \* group id -> list of areas (by id)
  settings_map,  \* setting id -> group id
  x,             \* index of the outer loop of the DFS (line 104)
  stack,         \* the DFS stack (event positions)
  limit_id,      \* the origin area being propagated
  port_i,        \* index of the port being read in the static phase
  event_i,       \* index of the event being read in the dynamic phase
  error,         \* the exception InitGlobals ended with, if any
  name_or_id,    \* FuzzyLookupItem: the token
  lst,           \* FuzzyLookupItem: the entity list
  result         \* FuzzyLookupItem: what the call produced

vars == <<EVENTS, TILES_DATA, pc, AREAS_MAP, EVENTS_MAP, AREA, SUBSURFACE,
          SHOP_AREAS, settings_map, x, stack, limit_id, port_i, event_i,
          error, name_or_id, lst, result>>

globalsVars == <<EVENTS, TILES_DATA, AREAS_MAP, EVENTS_MAP, AREA, SUBSURFACE,
                 SHOP_AREAS, settings_map, x, stack, limit_id, port_i,
                 event_i, error>>

lookupVars == <<name_or_id, lst, result>>

--------------------------------------------------------------------------
(* Generic helpers *)

Range(s) == {s[i] : i \in DOMAIN s}

NoDup(s) == \A i, j \in DOMAIN s : i # j => s[i] # s[j]

SeqsUpTo(S, n) == UNION {[1..m -> S] : m \in 0..n}

Opt(S) == {<<>>} \cup {<<v>> : v \in S}

--------------------------------------------------------------------------
(* Program constants *)

LIMBO == 101956

EVENT_TYPES == <<"SuccessEvent", "DefaultEvent",
                 "RareSuccessEvent", "RareDefaultEvent">>

NoError == [kind |-> "none", id |-> 0]

KeyError == [kind |-> "KeyError", id |-> 0]

NestedBranch(id) == [kind |-> "NestedBranch", id |-> id]


--------------------------------------------------------------------------
(* The tables that are the same in every run of the model *)

\* Areas table: two ordinary areas and Limbo.
AREAS == <<[Id |-> 1], [Id |-> 2], [Id |-> LIMBO]>>

AreaIds == {AREAS[i].Id : i \in DOMAIN AREAS}

\* Exchanges table: group 10 is bound to setting 1, group 20 to setting 2.
\* Setting 3 belongs to no group.
EXCHANGES == <<[Id |-> 10, SettingIds |-> <<1>>],
               [Id |-> 20, SettingIds |-> <<2>>]>>

GroupIds == {EXCHANGES[i].Id : i \in DOMAIN EXCHANGES}

--------------------------------------------------------------------------
(* ForEachBranch *)

\* The outcome slots of an event in the order the two for loops read them:
\* branch by branch, and EVENT_TYPES order inside a branch.
RECURSIVE SlotsFrom(_, _, _)
SlotsFrom(branches, b, t) ==
  IF b > Len(branches) THEN <<>>
  ELSE IF t > Len(EVENT_TYPES) THEN SlotsFrom(branches, b + 1, 1)
  ELSE <<branches[b][EVENT_TYPES[t]]>> \o SlotsFrom(branches, b, t + 1)

\* ForEachBranch without lines 71-73: a nested outcome is passed over.
RECURSIVE Walk_SkipNested(_)
Walk_SkipNested(slots) ==
  IF slots = <<>> THEN [yielded |-> <<>>, raised |-> FALSE]
  ELSE IF slots[1] = <<>> \/ slots[1][1].ChildBranches # <<>>
       THEN Walk_SkipNested(Tail(slots))
  ELSE LET rest == Walk_SkipNested(Tail(slots))
       IN [yielded |-> <<slots[1][1]>> \o rest.yielded, raised |-> FALSE]

\* What the generator does on a list of slots: [yielded, raised].  An absent
\* outcome is skipped, an outcome with ChildBranches raises, and nothing is
\* yielded after the raise.
RECURSIVE Walk(_)
Walk(slots) ==
  IF slots = <<>> THEN [yielded |-> <<>>, raised |-> FALSE]
  ELSE IF slots[1] = <<>> THEN Walk(Tail(slots))
  ELSE IF slots[1][1].ChildBranches # <<>>
       THEN [yielded |-> <<>>, raised |-> TRUE]
  ELSE LET rest == Walk(Tail(slots))
       IN [yielded |-> <<slots[1][1]>> \o rest.yielded, raised |-> rest.raised]

ForEachBranch(event) == Walk(SlotsFrom(event.ChildBranches, 1, 1))

--------------------------------------------------------------------------
(* AddShopInfo *)

\* AddShopInfo without the Limbo test of lines 77-78.
AddShopInfo_KeepLimbo(shop_areas, group, area) ==
  IF area \notin Range(shop_areas[group])
  THEN [shop_areas EXCEPT ![group] = Append(@, area)]
  ELSE shop_areas

\* AddShopInfo without the membership test of line 80.
AddShopInfo_NoDedup(shop_areas, group, area) ==
  IF area = LIMBO THEN shop_areas
  ELSE [shop_areas EXCEPT ![group] = Append(@, area)]

\* Areas are compared as dicts by "in"; two areas of AREAS_MAP are equal
\* exactly when they have the same id, so a list of areas is a list of ids.
AddShopInfo(shop_areas, group, area) ==
  IF area = LIMBO THEN shop_areas
  ELSE IF area \notin Range(shop_areas[group])
       THEN [shop_areas EXCEPT ![group] = Append(@, area)]
  ELSE shop_areas

--------------------------------------------------------------------------
(* InitGlobals *)

\* Lines 84-102: the id maps, area[SUBSURFACE] = None, event[AREA] = [].
BuildMaps ==
  /\ pc = "start"
  /\ AREAS_MAP' = [id \in AreaIds |->
                     CHOOSE i \in DOMAIN AREAS : AREAS[i].Id = id]
  /\ SUBSURFACE' = [id \in AreaIds |-> <<>>]
  /\ EVENTS_MAP' = [id \in {EVENTS[i].Id : i \in DOMAIN EVENTS} |->
                     CHOOSE i \in DOMAIN EVENTS :
                       /\ EVENTS[i].Id = id
                       /\ \A j \in DOMAIN EVENTS : EVENTS[j].Id = id => j <= i]
  /\ AREA' = [i \in DOMAIN EVENTS |-> <<>>]
  /\ x' = 1
  /\ pc' = "origins"
  /\ UNCHANGED <<EVENTS, TILES_DATA, SHOP_AREAS, settings_map, stack,
                 limit_id, port_i, event_i, error>>
  /\ UNCHANGED lookupVars

\* Lines 104-109: the next event of the outer loop seeds the stack; an event
\* without LimitedToArea is passed over.
NextOrigin ==
  /\ pc = "origins"
  /\ IF x > Len(EVENTS)
     THEN /\ pc' = "settings"
          /\ UNCHANGED <<x, stack, limit_id>>
     ELSE LET limit == EVENTS[x].LimitedToArea
          IN IF limit = <<>>
             THEN /\ x' = x + 1
                  /\ UNCHANGED <<pc, stack, limit_id>>
             ELSE /\ stack' = <<x>>
                  /\ limit_id' = limit[1]
                  /\ pc' = "visit"
                  /\ x' = x
  /\ UNCHANGED <<EVENTS, TILES_DATA, AREAS_MAP, EVENTS_MAP, AREA, SUBSURFACE,
                 SHOP_AREAS, settings_map, port_i, event_i, error>>
  /\ UNCHANGED lookupVars

\* The for loop of line 115 leaving after the first outcome.
PushLinks_FirstOnly(stk, outcomes, events_map) ==
  IF outcomes = <<>> THEN [stack |-> stk, error |-> NoError]
  ELSE LET link == outcomes[1].LinkToEvent
       IN IF link = <<>> THEN [stack |-> stk, error |-> NoError]
          ELSE IF link[1] \notin DOMAIN events_map
               THEN [stack |-> stk, error |-> KeyError]
          ELSE [stack |-> Append(stk, events_map[link[1]]), error |-> NoError]

\* Line 119 with EVENTS_MAP.get: a missing id is passed over.
RECURSIVE PushLinks_SkipMissing(_, _, _)
PushLinks_SkipMissing(stk, outcomes, events_map) ==
  IF outcomes = <<>> THEN [stack |-> stk, error |-> NoError]
  ELSE LET link == outcomes[1].LinkToEvent
       IN IF link = <<>> \/ link[1] \notin DOMAIN events_map
          THEN PushLinks_SkipMissing(stk, Tail(outcomes), events_map)
          ELSE PushLinks_SkipMissing(Append(stk, events_map[link[1]]),
                                     Tail(outcomes), events_map)

\* Lines 115-119 on the outcomes the walker yields: every LinkToEvent is
\* looked up in EVENTS_MAP and pushed; a missing id is a KeyError.
RECURSIVE PushLinks(_, _, _)
PushLinks(stk, outcomes, events_map) ==
  IF outcomes = <<>> THEN [stack |-> stk, error |-> NoError]
  ELSE LET link == outcomes[1].LinkToEvent
       IN IF link = <<>> THEN PushLinks(stk, Tail(outcomes), events_map)
          ELSE IF link[1] \notin DOMAIN events_map
               THEN [stack |-> stk, error |-> KeyError]
          ELSE PushLinks(Append(stk, events_map[link[1]]),
                         Tail(outcomes), events_map)

\* The while loop without the guard of lines 112-113.
AlreadyTagged_Never(area_list, limit) == FALSE

\* Line 112: the cycle guard.
AlreadyTagged(area_list, limit) == limit \in Range(area_list)

\* Lines 110-119: one turn of the while loop.
Visit ==
  /\ pc = "visit"
  /\ IF stack = <<>>
     THEN /\ pc' = "origins"
          /\ x' = x + 1
          /\ UNCHANGED <<stack, AREA, error>>
     ELSE LET event == stack[Len(stack)]
              rest == SubSeq(stack, 1, Len(stack) - 1)
          IN IF AlreadyTagged(AREA[event], limit_id)
             THEN /\ stack' = rest
                  /\ UNCHANGED <<pc, x, AREA, error>>
             ELSE LET w == ForEachBranch(EVENTS[event])
                      r == PushLinks(rest, w.yielded, EVENTS_MAP)
                      err == IF r.error # NoError THEN r.error
                             ELSE IF w.raised
                                  THEN NestedBranch(EVENTS[event].Id)
                             ELSE NoError
                  IN /\ AREA' = [AREA EXCEPT ![event] = Append(@, limit_id)]
                     /\ stack' = r.stack
                     /\ error' = err
                     /\ pc' = IF err # NoError THEN "error" ELSE pc
                     /\ x' = x
  /\ UNCHANGED <<EVENTS, TILES_DATA, AREAS_MAP, EVENTS_MAP, SUBSURFACE,
                 SHOP_AREAS, settings_map, limit_id, port_i, event_i>>
  /\ UNCHANGED lookupVars

\* Lines 121-125: SHOP_AREAS[group] = [] and the setting -> group join map;
\* a setting listed by two groups ends with the later group.
SettingsOf(exchanges) ==
  LET owners(s) == {g \in DOMAIN exchanges : s \in Range(exchanges[g].SettingIds)}
      all == UNION {Range(exchanges[g].SettingIds) : g \in DOMAIN exchanges}
  IN [s \in all |->
        exchanges[CHOOSE g \in owners(s) : \A h \in owners(s) : h <= g].Id]

BuildSettings ==
  /\ pc = "settings"
  /\ SHOP_AREAS' = [g \in GroupIds |-> <<>>]
  /\ settings_map' = SettingsOf(EXCHANGES)
  /\ port_i' = 1
  /\ pc' = "static"
  /\ UNCHANGED <<EVENTS, TILES_DATA, AREAS_MAP, EVENTS_MAP, AREA, SUBSURFACE,
                 x, stack, limit_id, event_i, error>>
  /\ UNCHANGED lookupVars

\* Lines 128-132: the ports the static phase reads, in order: those of the
\* first entry of each tile whose Tiles list is not empty.
RECURSIVE PortsOf(_)
PortsOf(tiles) ==
  IF tiles = <<>> THEN <<>>
  ELSE LET entry == tiles[1].Tiles
       IN (IF entry = <<>> THEN <<>> ELSE entry[1].PortData)
          \o PortsOf(Tail(tiles))

\* Line 134 writing the flag of every area.
SetSubsurface_All(subsurface, port) ==
  [a \in DOMAIN subsurface |-> port.Subsurface]

\* Line 134: area[SUBSURFACE] = port[SUBSURFACE].
SetSubsurface(subsurface, port) ==
  [subsurface EXCEPT ![port.Area] = port.Subsurface]

\* Lines 133-138: one port.
StaticPort ==
  /\ pc = "static"
  /\ LET ports == PortsOf(TILES_DATA)
     IN IF port_i > Len(ports)
        THEN /\ pc' = "dynamic"
             /\ event_i' = 1
             /\ UNCHANGED <<SUBSURFACE, SHOP_AREAS, port_i, error>>
        ELSE LET port == ports[port_i]
             IN IF port.Area \notin DOMAIN AREAS_MAP
                THEN /\ pc' = "error"
                     /\ error' = KeyError
                     /\ UNCHANGED <<SUBSURFACE, SHOP_AREAS, port_i, event_i>>
                ELSE /\ SUBSURFACE' = SetSubsurface(SUBSURFACE, port)
                     /\ SHOP_AREAS' =
                          IF port.Setting \notin DOMAIN settings_map
                          THEN SHOP_AREAS
                          ELSE AddShopInfo(SHOP_AREAS,
                                           settings_map[port.Setting],
                                           AREAS[AREAS_MAP[port.Area]].Id)
                     /\ port_i' = port_i + 1
                     /\ UNCHANGED <<pc, event_i, error>>
  /\ UNCHANGED <<EVENTS, TILES_DATA, AREAS_MAP, EVENTS_MAP, AREA,
                 settings_map, x, stack, limit_id>>
  /\ UNCHANGED lookupVars

\* Lines 147-148 leaving after the first area id.
AddAreas_FirstOnly(shop_areas, group, area_ids, areas_map) ==
  IF area_ids = <<>> THEN [shops |-> shop_areas, error |-> NoError]
  ELSE IF area_ids[1] \notin DOMAIN areas_map
       THEN [shops |-> shop_areas, error |-> KeyError]
  ELSE [shops |-> AddShopInfo(shop_areas, group,
                              AREAS[areas_map[area_ids[1]]].Id),
        error |-> NoError]

\* Lines 147-148: the areas of one event go to one group.
RECURSIVE AddAreas(_, _, _, _)
AddAreas(shop_areas, group, area_ids, areas_map) ==
  IF area_ids = <<>> THEN [shops |-> shop_areas, error |-> NoError]
  ELSE IF area_ids[1] \notin DOMAIN areas_map
       THEN [shops |-> shop_areas, error |-> KeyError]
  ELSE AddAreas(AddShopInfo(shop_areas, group,
                            AREAS[areas_map[area_ids[1]]].Id),
                group, Tail(area_ids), areas_map)

\* Lines 142-148 on the outcomes the walker yields.
RECURSIVE SwitchOutcomes(_, _, _, _, _)
SwitchOutcomes(shop_areas, outcomes, area_ids, smap, areas_map) ==
  IF outcomes = <<>> THEN [shops |-> shop_areas, error |-> NoError]
  ELSE LET setting == outcomes[1].SwitchToSetting
       IN IF setting = <<>>
          THEN SwitchOutcomes(shop_areas, Tail(outcomes), area_ids, smap,
                              areas_map)
          ELSE IF setting[1] \notin DOMAIN smap
               THEN [shops |-> shop_areas, error |-> KeyError]
          ELSE LET r == AddAreas(shop_areas, smap[setting[1]], area_ids,
                                 areas_map)
               IN IF r.error # NoError THEN r
                  ELSE SwitchOutcomes(r.shops, Tail(outcomes), area_ids,
                                      smap, areas_map)

\* Lines 141-148: one event of the dynamic phase.
DynamicEvent ==
  /\ pc = "dynamic"
  /\ IF event_i > Len(EVENTS)
     THEN /\ pc' = "done"
          /\ UNCHANGED <<SHOP_AREAS, event_i, error>>
     ELSE LET w == ForEachBranch(EVENTS[event_i])
              r == SwitchOutcomes(SHOP_AREAS, w.yielded, AREA[event_i],
                                  settings_map, AREAS_MAP)
              err == IF r.error # NoError THEN r.error
                     ELSE IF w.raised
                          THEN NestedBranch(EVENTS[event_i].Id)
                     ELSE NoError
          IN /\ SHOP_AREAS' = r.shops
             /\ error' = err
             /\ pc' = IF err # NoError THEN "error" ELSE pc
             /\ event_i' = IF err # NoError THEN event_i ELSE event_i + 1
  /\ UNCHANGED <<EVENTS, TILES_DATA, AREAS_MAP, EVENTS_MAP, AREA, SUBSURFACE,
                 settings_map, x, stack, limit_id, port_i>>
  /\ UNCHANGED lookupVars


--------------------------------------------------------------------------
(* Input tables *)

MaxEvents == 2

MaxTiles == 2

Outcome(link, setting) ==
  [ChildBranches |-> <<>>, LinkToEvent |-> link, SwitchToSetting |-> setting]

\* An outcome that carries branches of its own.
NestedOutcome ==
  [ChildBranches |-> <<"branch">>, LinkToEvent |-> <<>>,
   SwitchToSetting |-> <<>>]

Branch(s, d, rs, rd) ==
  [SuccessEvent |-> s, DefaultEvent |-> d,
   RareSuccessEvent |-> rs, RareDefaultEvent |-> rd]

Event(id, limit, branches) ==
  [Id |-> id, LimitedToArea |-> limit, ChildBranches |-> branches]

Port(area, subsurface, setting) ==
  [Area |-> area, Subsurface |-> <<subsurface>>, Setting |-> setting]

Tile(entries) == [Tiles |-> entries]

Entry(ports) == [PortData |-> ports]

\* Event tables of the reachability runs: n events with ids 1..n, each with
\* one branch: a first outcome of any kind and, in the last slot, nothing, a
\* nested outcome or a second link.  Links may name any event of the table or
\* the id n + 1, which the table does not hold.
ReachOutcomes(n) ==
  {Outcome(<<e>>, <<>>) : e \in 1..(n + 1)} \cup {Outcome(<<>>, <<1>>)}
    \cup {NestedOutcome}

ReachBranches(n) ==
  {Branch(s, <<>>, <<>>, d) :
     s \in Opt(ReachOutcomes(n)),
     d \in Opt({NestedOutcome, Outcome(<<1>>, <<>>)})}

ReachEvents(n) ==
  {ev \in [1..n -> [Id : 1..n, LimitedToArea : Opt({1, LIMBO}),
                    ChildBranches : {<<b>> : b \in ReachBranches(n)}]] :
     \A i \in 1..n : ev[i].Id = i}

\* The reachability runs read one tile, which has no entries.
ReachTiles == {<<Tile(<<>>)>>}

\* Event tables of the aggregation runs: two events, each with any origin, an
\* optional link to the other event and an optional switch to a setting of
\* its own (event 1 to setting 1, event 2 to setting 2).
ShopEvent(i) ==
  {Event(i, limit, <<Branch(<<>>, <<Outcome(link, setting)>>, <<>>, <<>>)>>) :
     limit \in Opt(AreaIds), link \in Opt({3 - i}), setting \in Opt({i})}

ShopEvents == {<<e1, e2>> : e1 \in ShopEvent(1), e2 \in ShopEvent(2)}

\* Tiles of the aggregation runs: a tile without entries, or a tile whose
\* first entry holds one port: in any area with setting 1, or in area 1 with
\* setting 3 (which no group lists).
ShopTile ==
  {Tile(<<>>), Tile(<<Entry(<<Port(1, FALSE, 3)>>)>>)} \cup
  {Tile(<<Entry(<<Port(a, a = 2, 1)>>)>>) : a \in AreaIds}

ShopTiles == SeqsUpTo(ShopTile, MaxTiles)

\* Tiles of the subsurface runs: as above with either flag on every port, a
\* tile whose ports are in its second entry, which the code never reads, and
\* a tile with a port in area 3, which the Areas table does not hold.
FlagTile ==
  {Tile(<<>>), Tile(<<Entry(<<>>), Entry(<<Port(1, TRUE, 1)>>)>>),
   Tile(<<Entry(<<Port(3, TRUE, 1)>>)>>)} \cup
  {Tile(<<Entry(<<Port(a, b, s)>>)>>) :
     a \in {1, 2}, b \in BOOLEAN, s \in {1, 3}}

FlagTiles == SeqsUpTo(FlagTile, MaxTiles)

\* Event tables of the subsurface runs: one event that switches to a setting.
\* Its origin is area 1 or area 3, which the Areas table does not hold; its
\* switch names setting 2 or setting 3, which no group lists.
FlagEvents ==
  {<<Event(1, <<a>>, <<Branch(<<Outcome(<<>>, <<s>>)>>, <<>>, <<>>, <<>>)>>)>> :
     a \in {1, 3}, s \in {2, 3}}

--------------------------------------------------------------------------
(* FuzzyLookupItem *)

MaxLen == 2

MaxEntities == 2

\* Characters: a lower-case letter, its upper-case form, and a digit.
TokenChars == {"a", "A", "1"}

NameChars == {"a", "A"}

\* str.lower, one character at a time.
LowerChar(c) == IF c = "A" THEN "a" ELSE c

Lower(str) == [i \in DOMAIN str |-> LowerChar(str[i])]

\* str.islower: at least one cased character and no upper-case one.
IsLower(str) ==
  /\ \E i \in DOMAIN str : str[i] = "a"
  /\ \A i \in DOMAIN str : str[i] # "A"

\* int(str) succeeds (on this alphabet: a non-empty run of digits).
IsInt(str) == str # <<>> /\ \A i \in DOMAIN str : str[i] = "1"

RECURSIVE IntValue(_)
IntValue(str) ==
  IF str = <<>> THEN 0
  ELSE 10 * IntValue(SubSeq(str, 1, Len(str) - 1)) + 1

\* sub in str
Contains(sub, str) ==
  \E k \in 0..(Len(str) - Len(sub)) : SubSeq(str, k + 1, k + Len(sub)) = sub

\* x[NAME] or ''
NameOr(entity) == IF entity.Name = <<>> THEN <<>> ELSE entity.Name[1]

Found(i) == [kind |-> "found", item |-> i, names |-> <<>>, token |-> <<>>]

Failure(kind, token, names) ==
  [kind |-> kind, item |-> 0, names |-> names, token |-> token]

\* Lines 160-164: the id path.
RECURSIVE FindId(_, _, _)
FindId(idd, entities, i) ==
  IF i > Len(entities) THEN Failure("IdNotFound", <<>>, <<>>)
  ELSE IF entities[i].Id = idd THEN Found(i)
  ELSE FindId(idd, entities, i + 1)

\* The scan without the return of lines 170-171.
RECURSIVE Scan_NoEarlyReturn(_, _, _, _, _)
Scan_NoEarlyReturn(token, insensitive, entities, i, matches) ==
  IF i > Len(entities) THEN [returned |-> 0, matches |-> matches]
  ELSE LET name == NameOr(entities[i])
           folded == IF insensitive THEN Lower(name) ELSE name
       IN Scan_NoEarlyReturn(token, insensitive, entities, i + 1,
                             IF Contains(token, folded)
                             THEN Append(matches, i) ELSE matches)

\* The scan without the folding of lines 172-173.
RECURSIVE Scan_NeverFold(_, _, _, _, _)
Scan_NeverFold(token, insensitive, entities, i, matches) ==
  IF i > Len(entities) THEN [returned |-> 0, matches |-> matches]
  ELSE LET name == NameOr(entities[i])
       IN IF token = name THEN [returned |-> i, matches |-> matches]
          ELSE Scan_NeverFold(token, insensitive, entities, i + 1,
                              IF Contains(token, name)
                              THEN Append(matches, i) ELSE matches)

\* Lines 168-175: the scan; matches holds positions of entities.
RECURSIVE Scan(_, _, _, _, _)
Scan(token, insensitive, entities, i, matches) ==
  IF i > Len(entities) THEN [returned |-> 0, matches |-> matches]
  ELSE LET name == NameOr(entities[i])
           folded == IF insensitive THEN Lower(name) ELSE name
       IN IF token = name THEN [returned |-> i, matches |-> matches]
          ELSE Scan(token, insensitive, entities, i + 1,
                    IF Contains(token, folded) THEN Append(matches, i)
                    ELSE matches)

FuzzyLookupItem(token, entities) ==
  IF IsInt(token) THEN FindId(IntValue(token), entities, 1)
  ELSE LET s == Scan(token, IsLower(token), entities, 1, <<>>)
       IN IF s.returned # 0 THEN Found(s.returned)
          ELSE IF Len(s.matches) = 1 THEN Found(s.matches[1])
          ELSE IF s.matches = <<>> THEN Failure("NotFound", token, <<>>)
          ELSE Failure("Ambiguous", token,
                       [k \in DOMAIN s.matches |-> entities[s.matches[k]].Name])

Lookup ==
  /\ pc = "lookup"
  /\ result' = FuzzyLookupItem(name_or_id, lst)
  /\ pc' = "returned"
  /\ UNCHANGED <<name_or_id, lst>>
  /\ UNCHANGED globalsVars

--------------------------------------------------------------------------
(* Specifications *)

NoResult == [kind |-> "none", item |-> 0, names |-> <<>>, token |-> <<>>]

InitGlobalsState ==
  /\ pc = "start"
  /\ AREAS_MAP = <<>>
  /\ EVENTS_MAP = <<>>
  /\ AREA = <<>>
  /\ SUBSURFACE = <<>>
  /\ SHOP_AREAS = <<>>
  /\ settings_map = <<>>
  /\ x = 0
  /\ stack = <<>>
  /\ limit_id = 0
  /\ port_i = 0
  /\ event_i = 0
  /\ error = NoError
  /\ name_or_id = <<>>
  /\ lst = <<>>
  /\ result = NoResult

\* InitGlobals on the event tables of the reachability runs.
Init ==
  /\ \E n \in 0..MaxEvents : EVENTS \in ReachEvents(n)
  /\ TILES_DATA \in ReachTiles
  /\ InitGlobalsState

Next ==
  \/ BuildMaps
  \/ NextOrigin
  \/ Visit
  \/ BuildSettings
  \/ StaticPort
  \/ DynamicEvent

Spec == Init /\ [][Next]_vars

\* InitGlobals on the tables of the aggregation runs.
ShopInit ==
  /\ EVENTS \in ShopEvents
  /\ TILES_DATA \in ShopTiles
  /\ InitGlobalsState

ShopSpec == ShopInit /\ [][Next]_vars

\* InitGlobals on the tables of the subsurface runs.
FlagInit ==
  /\ EVENTS \in FlagEvents
  /\ TILES_DATA \in FlagTiles
  /\ InitGlobalsState

FlagSpec == FlagInit /\ [][Next]_vars

\* One call of FuzzyLookupItem.  Every caller (lines 443-457) passes a command
\* line argument it has tested to be non-empty.
Strings(chars, n) == SeqsUpTo(chars, n)

Tokens == Strings(TokenChars, MaxLen) \ {<<>>}

EntityLists ==
  UNION {{l \in [1..m -> [Id : 1..m,
                          Name : Opt(Strings(NameChars, MaxLen))]] :
            \A i \in 1..m : l[i].Id = i} : m \in 0..MaxEntities}

LookupInit ==
  /\ name_or_id \in Tokens
  /\ lst \in EntityLists
  /\ result = NoResult
  /\ pc = "lookup"
  /\ EVENTS = <<>>
  /\ TILES_DATA = <<>>
  /\ AREAS_MAP = <<>>
  /\ EVENTS_MAP = <<>>
  /\ AREA = <<>>
  /\ SUBSURFACE = <<>>
  /\ SHOP_AREAS = <<>>
  /\ settings_map = <<>>
  /\ x = 0
  /\ stack = <<>>
  /\ limit_id = 0
  /\ port_i = 0
  /\ event_i = 0
  /\ error = NoError

LookupNext == Lookup

LookupSpec == LookupInit /\ [][LookupNext]_vars

--------------------------------------------------------------------------
(* The event graph, read from the table itself *)

\* The outcomes of event i that are present, whatever slot they are in.
OutcomesOf(i) ==
  {bt[1][bt[2]][1] :
     bt \in {c \in Range(EVENTS[i].ChildBranches) \X Range(EVENT_TYPES) :
               c[1][c[2]] # <<>>}}

EventIdSet == {EVENTS[i].Id : i \in DOMAIN EVENTS}

\* Event i has an outcome whose LinkToEvent is the id of event j.
Edge(i, j) == \E o \in OutcomesOf(i) : o.LinkToEvent = <<EVENTS[j].Id>>

RECURSIVE ReachableFrom(_)
ReachableFrom(S) ==
  LET T == S \cup {j \in DOMAIN EVENTS : \E i \in S : Edge(i, j)}
  IN IF T = S THEN S ELSE ReachableFrom(T)

\* The events whose LimitedToArea is area a.
Origins(a) == {i \in DOMAIN EVENTS : EVENTS[i].LimitedToArea = <<a>>}

OriginAreas == {EVENTS[i].LimitedToArea[1] :
                  i \in {j \in DOMAIN EVENTS : EVENTS[j].LimitedToArea # <<>>}}

HasDanglingLink(i) ==
  \E o \in OutcomesOf(i) :
    o.LinkToEvent # <<>> /\ o.LinkToEvent[1] \notin EventIdSet

HasNestedBranch(i) == \E o \in OutcomesOf(i) : o.ChildBranches # <<>>

\* Every switch names a setting some group lists.
SwitchesResolve ==
  \A i \in DOMAIN EVENTS : \A o \in OutcomesOf(i) :
    o.SwitchToSetting # <<>> =>
      \E g \in DOMAIN EXCHANGES :
        o.SwitchToSetting[1] \in Range(EXCHANGES[g].SettingIds)

AllReferencesResolve ==
  /\ \A i \in DOMAIN EVENTS : ~HasDanglingLink(i)
  /\ SwitchesResolve

--------------------------------------------------------------------------
(* Claims about the reachability traversal *)

C7_AnyDanglingLinkAborts ==
  pc = "done" => ~(\E i \in DOMAIN EVENTS : HasDanglingLink(i))

\* C7 amended: a LinkToEvent naming an id the table does not hold, in an
\* event that some origin-restricted event reaches, keeps InitGlobals from
\* completing.
C7_ReachedDanglingLinkAborts ==
  pc = "done" =>
    ~(\E a \in OriginAreas : \E i \in ReachableFrom(Origins(a)) :
        HasDanglingLink(i))

\* The traversal has stopped on the lookup of a missing id.
C7_Witness ==
  /\ pc = "error"
  /\ error = KeyError
  /\ \E a \in OriginAreas : \E i \in ReachableFrom(Origins(a)) :
       i \notin Origins(a) /\ HasDanglingLink(i)

\* C8: when some event has an outcome with branches of its own and every
\* reference resolves, InitGlobals does not complete, and the error it ends
\* in is the nested-branch error naming an event that has such an outcome.
C8_NestedBranchIsFatal ==
  (/\ pc \in {"done", "error"}
   /\ \E i \in DOMAIN EVENTS : HasNestedBranch(i)
   /\ AllReferencesResolve) =>
    /\ pc = "error"
    /\ error.kind = "NestedBranch"
    /\ \E i \in DOMAIN EVENTS : EVENTS[i].Id = error.id /\ HasNestedBranch(i)

\* The nested-branch error raised for an event that no traversal visited.
C8_Witness ==
  /\ pc = "error"
  /\ error.kind = "NestedBranch"
  /\ AllReferencesResolve
  /\ \E i \in DOMAIN EVENTS :
       /\ EVENTS[i].Id = error.id
       /\ AREA[i] = <<>>
       /\ Cardinality({j \in DOMAIN EVENTS : HasNestedBranch(j)}) = 1

\* No link is dangling and no outcome has branches of its own.
WellFormedEvents ==
  \A i \in DOMAIN EVENTS : ~HasDanglingLink(i) /\ ~HasNestedBranch(i)

\* Two events that link to each other, with one origin area between them.
TwoEventCycle ==
  /\ Len(EVENTS) = 2
  /\ Edge(1, 2)
  /\ Edge(2, 1)
  /\ WellFormedEvents
  /\ Cardinality(OriginAreas) = 1

TraversalOver == pc \in {"settings", "static", "dynamic", "done"}

\* A measure of the work the traversal has left.  Inside the while loop it is
\* the number of events the current origin area has not been appended to,
\* weighted by the most links one event can push, plus the stack's length;
\* the for loop contributes the events it has not started on.
MaxSlots ==
  LET n(i) == Len(EVENT_TYPES) * Len(EVENTS[i].ChildBranches)
  IN IF EVENTS = <<>> THEN 0
     ELSE n(CHOOSE i \in DOMAIN EVENTS : \A j \in DOMAIN EVENTS : n(j) <= n(i))

WhileMeasure ==
  MaxSlots * Cardinality({e \in DOMAIN AREA : limit_id \notin Range(AREA[e])})
    + Len(stack)

WhileBound == 2 * MaxSlots * Len(EVENTS) + 3

TraversalMeasure ==
  (Len(EVENTS) + 1 - x) * WhileBound
    + (IF pc = "visit" THEN WhileMeasure ELSE WhileBound - 1)

InTraversal == pc \in {"origins", "visit"}

\* C2: the traversal terminates on every table, cycles included: each of its
\* steps lowers a measure that is a natural number.  No area id is ever twice
\* in an event's derived list (each pair of event and origin area is appended
\* at most once), and on a 2-event cycle with one origin area both lists end
\* with exactly one element.
C2_TraversalTerminates ==
  [][/\ \A e \in DOMAIN AREA' : NoDup(AREA'[e])
     /\ InTraversal => /\ TraversalMeasure \in Nat
                       /\ WhileMeasure < WhileBound - 1
     /\ (InTraversal /\ InTraversal') => TraversalMeasure' < TraversalMeasure
     /\ (InTraversal /\ TraversalOver' /\ TwoEventCycle) =>
          \A e \in DOMAIN AREA' : Len(AREA'[e]) = 1]_vars

\* The traversal is over on a 2-event cycle in which both events are origins
\* of the same area, so the second traversal met only visited events.
C2_Witness ==
  /\ TwoEventCycle
  /\ TraversalOver
  /\ \A i \in DOMAIN EVENTS : EVENTS[i].LimitedToArea # <<>>
  /\ \A e \in DOMAIN AREA : Len(AREA[e]) = 1

--------------------------------------------------------------------------
(* Claims about the shop / area index *)

\* The ports of the tiles, in the order of the table.
Ports == PortsOf(TILES_DATA)

\* The group a setting is joined to, read from the Exchanges table.
JoinedTo(setting, group) ==
  /\ \E g \in DOMAIN EXCHANGES :
       EXCHANGES[g].Id = group /\ setting \in Range(EXCHANGES[g].SettingIds)
  /\ \A g, h \in DOMAIN EXCHANGES :
       (/\ EXCHANGES[g].Id = group
        /\ setting \in Range(EXCHANGES[g].SettingIds)
        /\ setting \in Range(EXCHANGES[h].SettingIds)) => h <= g

\* Areas of the ports whose setting is joined to the group.
StaticAreas(group) ==
  {Ports[k].Area : k \in {j \in DOMAIN Ports : JoinedTo(Ports[j].Setting, group)}}

\* Events with an outcome that switches to a setting joined to the group.
Switchers(group) ==
  {i \in DOMAIN EVENTS :
     \E o \in OutcomesOf(i) :
       o.SwitchToSetting # <<>> /\ JoinedTo(o.SwitchToSetting[1], group)}

\* Areas that reach, along links, an event that switches to the group.
DynamicAreas(group) ==
  {a \in AreaIds : \E i \in Switchers(group) : i \in ReachableFrom(Origins(a))}

\* C3: no group's list of areas ever holds Limbo.
C3_NoLimboInShopAreas ==
  \A g \in DOMAIN SHOP_AREAS : LIMBO \notin Range(SHOP_AREAS[g])

\* InitGlobals is done after reading a port in Limbo whose setting group 10
\* lists, and an event that carries Limbo and switches to that setting.
C3_Witness ==
  /\ pc = "done"
  /\ \E k \in DOMAIN Ports : Ports[k].Area = LIMBO /\ Ports[k].Setting = 1
  /\ \E i \in Switchers(10) : LIMBO \in Range(AREA[i])

\* C4: no group's list of areas ever holds an area twice.
C4_NoDuplicateShopAreas ==
  \A g \in DOMAIN SHOP_AREAS : NoDup(SHOP_AREAS[g])

\* InitGlobals is done after two ports and an event gave group 10 the same
\* area.
C4_Witness ==
  /\ pc = "done"
  /\ \E j, k \in DOMAIN Ports :
       /\ j # k
       /\ Ports[j].Area = Ports[k].Area
       /\ Ports[j].Setting = 1
       /\ Ports[k].Setting = 1
       /\ Ports[j].Area \in DynamicAreas(10)
       /\ Ports[j].Area \in Range(SHOP_AREAS[10])

--------------------------------------------------------------------------
(* Claims about the subsurface flag *)

\* C10 as stated: once an area's flag has a definite value, no step changes
\* it.
C10_FlagSetOnce ==
  [][\A a \in DOMAIN SUBSURFACE :
       SUBSURFACE[a] # <<>> => SUBSURFACE'[a] = SUBSURFACE[a]]_vars

\* C10 amended: an area's flag is written only by the static phase, when it
\* reads a port of that area, and then takes that port's value; so a flag
\* that has a definite value changes only when a later port of the same area
\* is read, and the flag of an area with a single port is set once.
C10_FlagFollowsPorts ==
  [][\A a \in DOMAIN SUBSURFACE \cap DOMAIN SUBSURFACE' :
       SUBSURFACE'[a] # SUBSURFACE[a] =>
         /\ pc = "static"
         /\ port_i \in DOMAIN Ports
         /\ Ports[port_i].Area = a
         /\ SUBSURFACE'[a] = Ports[port_i].Subsurface]_vars

\* InitGlobals is done after two ports of one area with different flags; the
\* area has the flag of the second, and an area without port is unknown.
C10_Witness ==
  /\ pc = "done"
  /\ Len(Ports) = 2
  /\ Ports[1].Area = Ports[2].Area
  /\ Ports[1].Subsurface # Ports[2].Subsurface
  /\ SUBSURFACE[Ports[1].Area] = Ports[2].Subsurface
  /\ \E a \in DOMAIN SUBSURFACE : SUBSURFACE[a] = <<>>

--------------------------------------------------------------------------
(* Claims about FuzzyLookupItem *)

\* The token is not read as an integer.
NonIntegerToken == \E i \in DOMAIN name_or_id : name_or_id[i] # "1"

\* The name of the entity at position i, an absent name read as "".
NameText(i) == IF lst[i].Name = <<>> THEN <<>> ELSE lst[i].Name[1]

HasUpper(str) == \E i \in DOMAIN str : str[i] = "A"

\* The entity at position i contains the token: letter case counts when the
\* token has an upper-case character and is ignored otherwise.
TokenMatches(i) ==
  IF HasUpper(name_or_id) THEN Contains(name_or_id, NameText(i))
  ELSE Contains(Lower(name_or_id), Lower(NameText(i)))

MatchSet == {i \in DOMAIN lst : TokenMatches(i)}

\* C5: with a non-integer token, when some entity's name is the token itself
\* the lookup returns an entity with exactly that name and does not fail,
\* whatever other names contain the token and wherever the entity is.
C5_ExactNameReturned ==
  (/\ pc = "returned"
   /\ NonIntegerToken
   /\ \E i \in DOMAIN lst : lst[i].Name = <<name_or_id>>) =>
    /\ result.kind = "found"
    /\ lst[result.item].Name = <<name_or_id>>

\* The lookup returned the second entity, whose name is the token, after
\* passing a first entity whose longer name contains the token.
C5_Witness ==
  /\ pc = "returned"
  /\ Len(lst) = 2
  /\ lst[2].Name = <<name_or_id>>
  /\ lst[1].Name # <<>>
  /\ lst[1].Name # lst[2].Name
  /\ Contains(name_or_id, lst[1].Name[1])
  /\ result.kind = "found"
  /\ result.item = 2

\* C6: with a non-integer token that is no entity's full name, the lookup
\* returns the one entity whose name contains the token, fails with NotFound
\* naming the token when there is none, and fails with Ambiguous listing the
\* name of each of them when there are several.
C6_SubstringMatch ==
  (/\ pc = "returned"
   /\ NonIntegerToken
   /\ \A i \in DOMAIN lst : lst[i].Name # <<name_or_id>>) =>
    /\ Cardinality(MatchSet) = 1 =>
         result.kind = "found" /\ result.item \in MatchSet
    /\ MatchSet = {} =>
         result.kind = "NotFound" /\ result.token = name_or_id
    /\ Cardinality(MatchSet) > 1 =>
         /\ result.kind = "Ambiguous"
         /\ result.token = name_or_id
         /\ Len(result.names) = Cardinality(MatchSet)
         /\ \A i \in MatchSet :
              \E k \in DOMAIN result.names : result.names[k] = lst[i].Name

\* A lower-case token was found ambiguous between two names, one of which
\* contains it only when letter case is ignored.
C6_Witness ==
  /\ pc = "returned"
  /\ result.kind = "Ambiguous"
  /\ Len(result.names) = 2
  /\ ~HasUpper(name_or_id)
  /\ \E i \in DOMAIN lst :
       ~Contains(name_or_id, NameText(i)) /\ TokenMatches(i)

=============================================================================
